---------------------------- MODULE Spec2Model ----------------------------
(***************************************************************************)
(* Model of python_scripts/adult_census_exploration.py: a notebook that    *)
(* reads a CSV file into a pandas DataFrame, keeps a configured list of    *)
(* columns, and runs descriptive summaries on it (value_counts, hist,      *)
(* crosstab, a prefix slice for the pair plots).                           *)
(*                                                                         *)
(* A cell value is an integer: NaN is the missing value, 1..99 are         *)
(* numbers, and values from TextBase up stand for strings (their integer   *)
(* order stands for the lexicographic order of the strings).               *)
(***************************************************************************)
EXTENDS Integers, Sequences, FiniteSets, TLC

VARIABLES csv, pc, adult_census, error, last, memo

vars == <<csv, pc, adult_census, error, last, memo>>

\* ------------------------------------------------------------- bounds
\* The largest number of data rows of a modelled file.
MaxRows == 3
\* hist is run with every bin count of 1..MaxBins, and with DefaultBins.
MaxBins == 2

\* ------------------------------------------------------------- values
NaN == 0
TextBase == 100
\* bins=10 is the default of DataFrame.hist, which the script does not override.
DefaultBins == 10
\* n_samples_to_plot, scaled down from 5000 to the size of the modelled files.
n_samples_to_plot == 2

IsText(v) == v >= TextBase

Max(a, b) == IF a >= b THEN a ELSE b

Range(s) == {s[i] : i \in DOMAIN s}

IndexOf(s, x) == CHOOSE i \in DOMAIN s : s[i] = x

\* ------------------------------------------------- column configuration
\* The script's lists, shortened: two of its five numerical columns, one of
\* its eight categorical columns, and the target.
target_column == "class"

numerical_columns == <<"age", "education-num">>

categorical_columns == <<"education">>

all_columns == numerical_columns \o categorical_columns \o <<target_column>>

\* The role the script's lists give a column name ("none" for fnlwgt).
Role(c) ==
    IF c \in Range(numerical_columns) THEN "numerical"
    ELSE IF c \in Range(categorical_columns) THEN "categorical"
    ELSE IF c = target_column THEN "target"
    ELSE "none"

\* ------------------------------------------------------------ the files
\* Header lines: the full header (with fnlwgt, in file order), one without
\* education-num, and one with the age and education columns exchanged, so
\* that 'age' holds text and 'education' holds numbers.
Headers ==
    { <<"age", "fnlwgt", "education", "education-num", "class">>,
      <<"age", "fnlwgt", "education", "class">>,
      <<"education", "fnlwgt", "age", "education-num", "class">> }

\* Data lines, as their fields: complete rows, a row with an empty first
\* field, a row that maps education 101 to another education-num, a row
\* with fewer fields than the header and a row with more.
RowPool ==
    { <<1, 7, 101, 1, 103>>,
      <<4, 7, 102, 2, 104>>,
      <<NaN, 8, 102, 2, 103>>,
      <<2, 7, 101, 2, 103>>,
      <<3, 7, 102>>,
      <<1, 7, 101, 1, 104, 9>> }

RowSeqs == UNION { [1..n -> RowPool] : n \in 0..MaxRows }

MissingFile == [exists |-> FALSE, header |-> <<>>, rows |-> <<>>]

EmptyFile == [exists |-> TRUE, header |-> <<>>, rows |-> <<>>]

Files ==
    {MissingFile, EmptyFile}
    \cup { [exists |-> TRUE, header |-> h, rows |-> r] : h \in Headers, r \in RowSeqs }

\* ------------------------------------------------------------- read_csv
\* The number of fields the tokenizer expects of the lines after the first
\* data line: the header's, or the first data line's when that has more.
Expected(f) ==
    IF f.rows = <<>> THEN Len(f.header)
    ELSE Max(Len(f.header), Len(f.rows[1]))

\* The exception pd.read_csv raises on the file, or "none".
ReadError(f) ==
    IF ~f.exists THEN "FileNotFoundError"
    ELSE IF f.header = <<>> THEN "EmptyDataError"
    ELSE IF \E i \in 2..Len(f.rows) : Len(f.rows[i]) > Expected(f) THEN "ParserError"
    ELSE "none"

\* A line with fewer fields than expected is padded with NaN.
Field(row, k) == IF k <= Len(row) THEN row[k] ELSE NaN

\* The frame pd.read_csv returns: the header's columns and one row per data
\* line; when the first data line has more fields than the header, the
\* leading fields are the index and the header names the fields after them.
read_csv(f) ==
    LET lead == Expected(f) - Len(f.header)
    IN  [columns |-> f.header,
         rows |-> [i \in 1..Len(f.rows) |->
                     [c \in Range(f.header) |->
                        Field(f.rows[i], lead + IndexOf(f.header, c))]]]

\* No frame is bound to the name adult_census.
NoTable == [columns |-> <<>>, rows |-> <<>>]

\* ----------------------------------------------------------- projection
\* The requested labels that are not columns of the frame (a KeyError).
MissingLabels(T, L) == {c \in Range(L) : c \notin Range(T.columns)}

\* Variant of getitem_columns that keeps the frame's own column order.
getitem_columns_frame_order(T, L) ==
    [columns |-> SelectSeq(T.columns, LAMBDA c : c \in Range(L)),
     rows |-> [i \in DOMAIN T.rows |-> [c \in Range(L) |-> T.rows[i][c]]]]

\* T[L]: the columns L, in the order of L, of every row.
getitem_columns(T, L) ==
    [columns |-> L,
     rows |-> [i \in DOMAIN T.rows |-> [c \in Range(L) |-> T.rows[i][c]]]]

\* T[:n]: a new frame holding the first n rows.
getitem_slice(T, n) ==
    [columns |-> T.columns,
     rows |-> [i \in 1..(IF n <= Len(T.rows) THEN n ELSE Len(T.rows)) |-> T.rows[i]]]

\* T[c]: one column, as a sequence of values in row order.
Column(T, c) == [i \in DOMAIN T.rows |-> T.rows[i][c]]

dropna(s) == SelectSeq(s, LAMBDA v : v # NaN)

\* The dtype read_csv infers: numeric unless some value is text; the
\* columns of a frame without rows are of dtype object, not numeric.
IsNumeric(T, c) ==
    /\ T.rows # <<>>
    /\ \A i \in DOMAIN T.rows : ~IsText(T.rows[i][c])

\* The columns DataFrame.hist plots.
NumericColumns(T) == {c \in Range(T.columns) : IsNumeric(T, c)}


\* --------------------------------------------------------- value_counts
\* The distinct values of a sequence, in the order of their first occurrence.
RECURSIVE unique(_)
unique(s) ==
    IF s = <<>> THEN <<>>
    ELSE LET r == unique(SubSeq(s, 1, Len(s) - 1))
             v == s[Len(s)]
         IN  IF v \in Range(r) THEN r ELSE Append(r, v)

Count(s, v) == Cardinality({i \in DOMAIN s : s[i] = v})

\* Variant of Insert that sorts by ascending count.
Insert_ascending(sorted, e) ==
    LET k == Cardinality({i \in DOMAIN sorted : sorted[i].count <= e.count})
    IN  SubSeq(sorted, 1, k) \o <<e>> \o SubSeq(sorted, k + 1, Len(sorted))

\* e placed after every entry of the descending sequence whose count is at
\* least e's.
Insert(sorted, e) ==
    LET k == Cardinality({i \in DOMAIN sorted : sorted[i].count >= e.count})
    IN  SubSeq(sorted, 1, k) \o <<e>> \o SubSeq(sorted, k + 1, Len(sorted))

\* Entries sorted by descending count; entries of equal count keep the order
\* they came in.
RECURSIVE sort_values(_)
sort_values(es) ==
    IF es = <<>> THEN <<>>
    ELSE Insert(sort_values(SubSeq(es, 1, Len(es) - 1)), es[Len(es)])

\* Variant of value_counts that counts the missing value too (dropna=False).
value_counts_keepna(s) ==
    LET keys == unique(s)
    IN  sort_values([k \in DOMAIN keys |->
                       [value |-> keys[k], count |-> Count(s, keys[k])]])

\* Series.value_counts() with its defaults (sort=True, ascending=False,
\* dropna=True): missing values are not counted.
value_counts(s) ==
    LET kept == dropna(s)
        keys == unique(kept)
    IN  sort_values([k \in DOMAIN keys |->
                       [value |-> keys[k], count |-> Count(kept, keys[k])]])

\* ------------------------------------------------------------- crosstab
\* The elements of a finite set of values in ascending order.
RECURSIVE SortAsc(_)
SortAsc(S) ==
    IF S = {} THEN <<>>
    ELSE LET m == CHOOSE x \in S : \A y \in S : x <= y
         IN  <<m>> \o SortAsc(S \ {m})

\* Variant of crosstab whose cells count the rows holding the row label,
\* whatever their column label.
crosstab_row_totals(a, b) ==
    LET kept == {i \in DOMAIN a : a[i] # NaN /\ b[i] # NaN}
        rl == {a[i] : i \in kept}
        cl == {b[i] : i \in kept}
    IN  [index |-> SortAsc(rl),
         columns |-> SortAsc(cl),
         cells |-> [p \in rl \X cl |-> Cardinality({i \in kept : a[i] = p[1]})]]

\* pd.crosstab(index=a, columns=b) with its defaults: the rows where either
\* value is missing are dropped; the labels are the sorted distinct values
\* left, and a cell counts the rows holding its pair of labels.
crosstab(a, b) ==
    LET kept == {i \in DOMAIN a : a[i] # NaN /\ b[i] # NaN}
        rl == {a[i] : i \in kept}
        cl == {b[i] : i \in kept}
    IN  [index |-> SortAsc(rl),
         columns |-> SortAsc(cl),
         cells |-> [p \in rl \X cl |->
                      Cardinality({i \in kept : a[i] = p[1] /\ b[i] = p[2]})]]

\* ------------------------------------------------------------ histogram
Minimum(s) == CHOOSE x \in Range(s) : \A y \in Range(s) : x <= y

Maximum(s) == CHOOSE x \in Range(s) : \A y \in Range(s) : x >= y

\* Twice the lower end of the histogram's range: (0, 1) for no data, the
\* single value widened by a half on each side, else (min, max).
RangeLow2(s) ==
    IF s = <<>> THEN 0
    ELSE IF Minimum(s) = Maximum(s) THEN 2 * Minimum(s) - 1
    ELSE 2 * Minimum(s)

RangeHigh2(s) ==
    IF s = <<>> THEN 2
    ELSE IF Minimum(s) = Maximum(s) THEN 2 * Maximum(s) + 1
    ELSE 2 * Maximum(s)

\* The i-th of the binCount + 1 equally spaced edges, in units of
\* 1 / (2 * binCount).
Edge(s, binCount, i) == binCount * RangeLow2(s) + i * (RangeHigh2(s) - RangeLow2(s))

\* Variant of InBin whose last bin is open on the right too.
InBin_half_open(s, binCount, v, i) ==
    /\ Edge(s, binCount, i - 1) <= 2 * binCount * v
    /\ 2 * binCount * v < Edge(s, binCount, i)

\* Bins are closed on the left and open on the right, except the last one,
\* which is closed on both sides.
InBin(s, binCount, v, i) ==
    /\ Edge(s, binCount, i - 1) <= 2 * binCount * v
    /\ \/ 2 * binCount * v < Edge(s, binCount, i)
       \/ i = binCount /\ 2 * binCount * v = Edge(s, binCount, binCount)

\* The bins of the non-missing values s of one column.
histogram(s, binCount) ==
    [i \in 1..binCount |->
       [rangeLow |-> Edge(s, binCount, i - 1),
        rangeHigh |-> Edge(s, binCount, i),
        count |-> Cardinality({k \in DOMAIN s : InBin(s, binCount, s[k], i)})]]

\* Variant of hist that picks the columns by their configured role.
hist_by_role(T, binCount) ==
    [c \in {x \in Range(T.columns) : Role(x) = "numerical"} |->
       histogram(dropna(Column(T, c)), binCount)]

\* DataFrame.hist(bins): one histogram per column of numeric dtype; the
\* other columns are left out.
hist(T, binCount) ==
    [c \in NumericColumns(T) |-> histogram(dropna(Column(T, c)), binCount)]

\* ------------------------------------------------------------ the state
\* csv           the file datasets/adult-census.csv
\* pc            "start", "loaded" (read_csv done), "projected" (columns
\*               selected) or "failed" (a cell raised and the run stopped)
\* adult_census  the frame bound to the name adult_census
\* error         the exception raised, or "none"
\* last          the call of the cell run last, and the value it displayed
\*               (an assignment displays nothing)
\* memo          the first call run on the projected frame and the value it
\*               displayed, kept to compare later runs of the same call
\*               with; others: another call ran since; again: the call was
\*               run again after another one
Call(op, a, b, n) == [op |-> op, a |-> a, b |-> b, n |-> n]

NoCall == Call("none", "", "", 0)

\* The call of a memo that keeps nothing.
Unwatched == Call("unwatched", "", "", 0)

NoMemo(call) == [call |-> call, result |-> <<>>, others |-> FALSE, again |-> FALSE]

Init ==
    /\ csv \in Files
    /\ pc = "start"
    /\ adult_census = NoTable
    /\ error = "none"
    /\ last = [call |-> NoCall, result |-> <<>>]
    /\ memo = NoMemo(Unwatched)

\* The files of the runs that keep a memo: the full header, and lines drawn
\* from a complete one and one whose last two fields are absent.
RerunPool == { <<1, 7, 101, 1, 103>>, <<3, 7, 102>> }

RerunFiles ==
    { [exists |-> TRUE,
       header |-> <<"age", "fnlwgt", "education", "education-num", "class">>,
       rows |-> r] : r \in UNION { [1..n -> RerunPool] : n \in 0..MaxRows } }

InitRerun ==
    /\ csv \in RerunFiles
    /\ pc = "start"
    /\ adult_census = NoTable
    /\ error = "none"
    /\ last = [call |-> NoCall, result |-> <<>>]
    /\ memo = NoMemo(NoCall)

\* A cell's value is displayed; the memo keeps the first one displayed on
\* the projected frame and notes what is run after it.
Display(call, result) ==
    /\ last' = [call |-> call, result |-> result]
    /\ memo' = IF memo.call = Unwatched \/ pc # "projected" THEN memo
               ELSE IF memo.call = NoCall
               THEN [call |-> call, result |-> result, others |-> FALSE, again |-> FALSE]
               ELSE IF memo.call = call THEN [memo EXCEPT !.again = memo.others]
               ELSE [memo EXCEPT !.others = TRUE]

\* adult_census = pd.read_csv('datasets/adult-census.csv')
Load ==
    /\ pc = "start"
    /\ IF ReadError(csv) = "none"
       THEN /\ adult_census' = read_csv(csv)
            /\ pc' = "loaded"
            /\ error' = "none"
       ELSE /\ adult_census' = adult_census
            /\ pc' = "failed"
            /\ error' = ReadError(csv)
    /\ last' = [call |-> Call("read_csv", "", "", 0), result |-> <<>>]
    /\ UNCHANGED <<csv, memo>>

\* Variant of Project that fills an absent column with NaN (reindex).
Project_reindex ==
    /\ pc = "loaded"
    /\ adult_census' =
         [columns |-> all_columns,
          rows |-> [i \in DOMAIN adult_census.rows |->
                      [c \in Range(all_columns) |->
                         IF c \in Range(adult_census.columns)
                         THEN adult_census.rows[i][c] ELSE NaN]]]
    /\ pc' = "projected"
    /\ error' = "none"
    /\ last' = [call |-> Call("getitem", "", "", 0), result |-> <<>>]
    /\ UNCHANGED <<csv, memo>>

\* adult_census = adult_census[all_columns]
Project ==
    /\ pc = "loaded"
    /\ IF MissingLabels(adult_census, all_columns) = {}
       THEN /\ adult_census' = getitem_columns(adult_census, all_columns)
            /\ pc' = "projected"
            /\ error' = "none"
       ELSE /\ adult_census' = adult_census
            /\ pc' = "failed"
            /\ error' = "KeyError"
    /\ last' = [call |-> Call("getitem", "", "", 0), result |-> <<>>]
    /\ UNCHANGED <<csv, memo>>

\* Variant of ValueCounts that raises on a column of numerical role.
ValueCounts_discrete_only(c) ==
    /\ \/ pc = "loaded" /\ c = target_column
       \/ pc = "projected"
    /\ c \in Range(adult_census.columns)
    /\ IF Role(c) = "numerical"
       THEN /\ Display(Call("value_counts", c, "", 0), <<>>)
            /\ pc' = "failed"
            /\ error' = "TypeError"
       ELSE /\ Display(Call("value_counts", c, "", 0),
                       value_counts(Column(adult_census, c)))
            /\ UNCHANGED <<pc, error>>
    /\ UNCHANGED <<csv, adult_census>>

\* adult_census[c].value_counts(): on the target column before the columns
\* are selected, on any column after.
ValueCounts(c) ==
    /\ \/ pc = "loaded" /\ c = target_column
       \/ pc = "projected"
    /\ c \in Range(adult_census.columns)
    /\ Display(Call("value_counts", c, "", 0), value_counts(Column(adult_census, c)))
    /\ UNCHANGED <<csv, pc, adult_census, error>>

\* adult_census.hist(bins=binCount); with no numeric column there is
\* nothing to plot, and the call raises.
Hist(binCount) ==
    /\ pc = "projected"
    /\ IF NumericColumns(adult_census) = {}
       THEN /\ Display(Call("hist", "", "", binCount), <<>>)
            /\ pc' = "failed"
            /\ error' = "ValueError"
       ELSE /\ Display(Call("hist", "", "", binCount), hist(adult_census, binCount))
            /\ UNCHANGED <<pc, error>>
    /\ UNCHANGED <<csv, adult_census>>

\* Variant of Crosstab that drops the rows it leaves out from the frame itself.
Crosstab_inplace(r, c) ==
    /\ pc = "projected"
    /\ r \in Range(adult_census.columns)
    /\ c \in Range(adult_census.columns)
    /\ Display(Call("crosstab", r, c, 0),
               crosstab(Column(adult_census, r), Column(adult_census, c)))
    /\ adult_census' =
         [adult_census EXCEPT
            !.rows = SelectSeq(adult_census.rows,
                               LAMBDA row : row[r] # NaN /\ row[c] # NaN)]
    /\ UNCHANGED <<csv, pc, error>>

\* pd.crosstab(index=adult_census[r], columns=adult_census[c])
Crosstab(r, c) ==
    /\ pc = "projected"
    /\ r \in Range(adult_census.columns)
    /\ c \in Range(adult_census.columns)
    /\ Display(Call("crosstab", r, c, 0),
               crosstab(Column(adult_census, r), Column(adult_census, c)))
    /\ UNCHANGED <<csv, pc, adult_census, error>>

\* Variant of PairPlot that rebinds adult_census to the slice.
PairPlot_inplace(n) ==
    /\ pc = "projected"
    /\ Display(Call("pairplot", "", "", n), getitem_slice(adult_census, n))
    /\ adult_census' = getitem_slice(adult_census, n)
    /\ UNCHANGED <<csv, pc, error>>

\* sns.pairplot(data=adult_census[:n_samples_to_plot], ...)
PairPlot(n) ==
    /\ pc = "projected"
    /\ Display(Call("pairplot", "", "", n), getitem_slice(adult_census, n))
    /\ UNCHANGED <<csv, pc, adult_census, error>>

BinCounts == (1..MaxBins) \cup {DefaultBins}

\* The pairs of discrete columns that are cross-tabulated: the script's
\* pair, the same pair exchanged, and a pair with the target.
CrossPairs ==
    { <<"education", "education-num">>,
      <<"education-num", "education">>,
      <<"education", target_column>> }

Next ==
    \/ Load
    \/ Project
    \/ \E c \in Range(all_columns) : ValueCounts(c)
    \/ \E binCount \in BinCounts : Hist(binCount)
    \/ \E p \in CrossPairs : Crosstab(p[1], p[2])
    \/ PairPlot(n_samples_to_plot)

Spec == Init /\ [][Next]_vars

\* The same cells, run on the files of RerunFiles with the memo kept.
SpecRerun == InitRerun /\ [][Next]_vars


\* ======================================================== the properties
DataError == error # "none"

\* Every data line has as many fields as the header line.
WellFormed(f) ==
    /\ f.exists
    /\ f.header # <<>>
    /\ \A i \in DOMAIN f.rows : Len(f.rows[i]) = Len(f.header)

Malformed(f) == f.exists /\ ~WellFormed(f)

HeaderHasAll(f) == Range(all_columns) \subseteq Range(f.header)

\* The loader (read_csv, then the selection of all_columns) raised.
LoaderFailed == pc = "failed" /\ last.call.op \in {"read_csv", "getitem"}

\* The loader has finished: it returned the Table, or it raised.
LoaderDone == pc \in {"projected", "failed"}

NonMissing(T, c) == {i \in DOMAIN T.rows : T.rows[i][c] # NaN}

RECURSIVE Total(_)
Total(es) == IF es = <<>> THEN 0 ELSE es[1].count + Total(Tail(es))

IsValueCounts == last.call.op = "value_counts"

IsHist == last.call.op = "hist"

IsCrosstab == last.call.op = "crosstab"

\* C1: a loaded Table has as many rows as the file has data lines, in the
\* file's order, and exactly the columns of all_columns in the order of
\* all_columns; a well-formed file whose header has every requested column
\* does load.
C1_LoaderShape ==
    /\ pc = "projected" =>
         /\ Len(adult_census.rows) = Len(csv.rows)
         /\ adult_census.columns = all_columns
         /\ \A i \in DOMAIN adult_census.rows :
              DOMAIN adult_census.rows[i] = Range(all_columns)
         /\ WellFormed(csv) =>
              \A i \in DOMAIN adult_census.rows : \A c \in Range(all_columns) :
                 adult_census.rows[i][c] = csv.rows[i][IndexOf(csv.header, c)]
    /\ (WellFormed(csv) /\ HeaderHasAll(csv)) => ~LoaderFailed

C1_Witness ==
    /\ pc = "projected"
    /\ WellFormed(csv)
    /\ "fnlwgt" \in Range(csv.header)
    /\ Len(csv.rows) >= 2
    /\ csv.rows[1] # csv.rows[2]
    /\ SelectSeq(csv.header, LAMBDA c : c \in Range(all_columns)) # all_columns

\* C2 as stated: the counts of value_counts on a categorical column sum to
\* the Table's row count.
C2_SumIsRowCount ==
    (IsValueCounts /\ Role(last.call.a) = "categorical")
        => Total(last.result) = Len(adult_census.rows)

\* C2, amended: the counts of value_counts sum to the number of rows whose
\* value in the column is not missing.
C2_SumIsNonMissingCount ==
    IsValueCounts
        => Total(last.result) = Cardinality(NonMissing(adult_census, last.call.a))

C2_Witness ==
    /\ IsValueCounts
    /\ Role(last.call.a) = "categorical"
    /\ Total(last.result) >= 2
    /\ Total(last.result) < Len(adult_census.rows)

\* C3: value_counts has one entry per distinct value of the column, each
\* with the number of rows holding the value, in descending order of count.
C3_ValueCounts ==
    IsValueCounts =>
        LET col == Column(adult_census, last.call.a)
            res == last.result
        IN  /\ {res[k].value : k \in DOMAIN res} = Range(col) \ {NaN}
            /\ \A j \in DOMAIN res : \A k \in DOMAIN res :
                 res[j].value = res[k].value => j = k
            /\ \A k \in DOMAIN res : res[k].count = Count(col, res[k].value)
            /\ \A k \in 1..(Len(res) - 1) : res[k].count >= res[k + 1].count

\* Rows [103, 104, 103] give 103: 2 then 104: 1.
C3_Witness ==
    /\ IsValueCounts
    /\ Column(adult_census, last.call.a) = <<104, 103, 103>>
    /\ last.result = <<[value |-> 103, count |-> 2], [value |-> 104, count |-> 1]>>

\* Two columns related by a one-to-one mapping: a value is missing in one
\* exactly where it is missing in the other, and two rows agree on one
\* exactly when they agree on the other.
OneToOne(a, b) ==
    /\ \A i \in DOMAIN a : (a[i] = NaN) <=> (b[i] = NaN)
    /\ \A i \in DOMAIN a : \A j \in DOMAIN a : (a[i] = a[j]) <=> (b[i] = b[j])

\* C4: the cross-tabulation of two columns related one to one has, in the
\* row of every distinct value of the row column, exactly one non-zero
\* cell, which holds the number of rows with that value.
C4_OneCellPerRow ==
    (IsCrosstab /\ OneToOne(Column(adult_census, last.call.a),
                            Column(adult_census, last.call.b))) =>
        LET a == Column(adult_census, last.call.a)
            res == last.result
        IN  /\ Range(res.index) = Range(a) \ {NaN}
            /\ \A r \in Range(res.index) :
                 \E c \in Range(res.columns) :
                    /\ res.cells[<<r, c>>] = Count(a, r)
                    /\ res.cells[<<r, c>>] > 0
                    /\ \A d \in Range(res.columns) \ {c} : res.cells[<<r, d>>] = 0

C4_Witness ==
    /\ IsCrosstab
    /\ last.call.a = "education"
    /\ last.call.b = "education-num"
    /\ OneToOne(Column(adult_census, "education"), Column(adult_census, "education-num"))
    /\ Len(last.result.index) = 2
    /\ \E p \in DOMAIN last.result.cells : last.result.cells[p] = 2

RECURSIVE BinTotal(_, _)
BinTotal(bins, k) == IF k = 0 THEN 0 ELSE bins[k].count + BinTotal(bins, k - 1)

\* C5: the bin counts of a column's histogram sum to the number of its
\* non-missing values; the bins are contiguous and span the minimum and
\* the maximum (ranges are in units of 1 / (2 * binCount)).
C5_HistogramTotal ==
    (IsHist /\ ~DataError) =>
        \A c \in DOMAIN last.result :
            LET bins == last.result[c]
                n == last.call.n
                vals == {adult_census.rows[i][c] : i \in NonMissing(adult_census, c)}
            IN  /\ Len(bins) = n
                /\ BinTotal(bins, n) = Cardinality(NonMissing(adult_census, c))
                /\ \A k \in 1..(n - 1) : bins[k].rangeHigh = bins[k + 1].rangeLow
                /\ \A v \in vals : /\ bins[1].rangeLow <= 2 * n * v
                                   /\ 2 * n * v <= bins[n].rangeHigh

C5_Witness ==
    /\ IsHist
    /\ last.call.n >= 2
    /\ \E c \in DOMAIN last.result :
         /\ Cardinality(NonMissing(adult_census, c)) = 2
         /\ Len(adult_census.rows) = 3
         /\ last.result[c][1].count = 1
         /\ last.result[c][last.call.n].count = 1

\* C6: a call run again on the same Table, with other calls run in
\* between, displays the value it displayed the first time.
C6_Idempotent ==
    (last.call = memo.call /\ memo.call # NoCall) => last.result = memo.result

C6_Witness ==
    /\ memo.again
    /\ last.call = memo.call
    /\ last.call.op = "value_counts"
    /\ Len(last.result) >= 2

\* A file that read_csv or the selection of all_columns rejects: missing,
\* empty, with a line after the first data line that has more fields than
\* the header and the first data line, or without a requested column.
Rejected(f) ==
    \/ ~f.exists
    \/ f.header = <<>>
    \/ \E i \in 2..Len(f.rows) : Len(f.rows[i]) > Max(Len(f.header), Len(f.rows[1]))
    \/ ~HeaderHasAll(f)

\* C7 as stated: loading a missing file, a malformed file or a file without
\* a requested column fails and yields no Table.
C7_BadFileFails ==
    (LoaderDone /\ (~csv.exists \/ Malformed(csv) \/ ~HeaderHasAll(csv)))
        => (LoaderFailed /\ DataError)

\* C7, amended: loading fails and yields no Table when the file is missing,
\* is empty, has a data line (after the first) with too many fields, or
\* lacks a requested column; a file whose only defect is data lines with
\* fewer fields than the header loads, the absent fields missing.
C7_RejectedFileFails ==
    /\ (LoaderDone /\ Rejected(csv)) => (LoaderFailed /\ DataError)
    /\ LoaderFailed => (DataError /\ Rejected(csv))
    /\ pc = "projected" =>
         \A i \in DOMAIN csv.rows : \A c \in Range(all_columns) :
            (Len(csv.rows[1]) <= Len(csv.header)
               /\ IndexOf(csv.header, c) > Len(csv.rows[i]))
                => adult_census.rows[i][c] = NaN

C7_Witness ==
    /\ LoaderFailed
    /\ error = "KeyError"
    /\ Len(adult_census.rows) >= 1
    /\ "education-num" \notin Range(adult_census.columns)

\* C8 as stated: hist fails on a column whose role is not numerical.
C8_HistFailsOnNonNumerical ==
    (IsHist /\ \E c \in Range(adult_census.columns) : Role(c) # "numerical")
        => DataError

\* The columns that hold at least one number and no text.
HoldsNumbers(T) ==
    {c \in Range(T.columns) :
        /\ \E i \in DOMAIN T.rows : T.rows[i][c] # NaN
        /\ \A i \in DOMAIN T.rows : T.rows[i][c] < TextBase}

\* The columns that hold text.
HoldsText(T) ==
    {c \in Range(T.columns) : \E i \in DOMAIN T.rows : T.rows[i][c] >= TextBase}

\* No column is numeric: the Table has no rows, or every column holds text.
NothingToPlot(T) == T.rows = <<>> \/ HoldsText(T) = Range(T.columns)

\* C8, amended: hist raises nothing on a column that is not numeric; it
\* leaves the column out and returns bins for exactly the numeric columns,
\* whatever role a column was given. It raises only when the Table has no
\* numeric column at all.
C8_HistSkipsNonNumeric ==
    IsHist =>
        /\ DataError <=> NothingToPlot(adult_census)
        /\ ~DataError =>
             /\ pc = "projected"
             /\ HoldsNumbers(adult_census) \subseteq DOMAIN last.result
             /\ HoldsText(adult_census) \cap DOMAIN last.result = {}
             /\ DOMAIN last.result \subseteq Range(adult_census.columns)

C8_Witness ==
    /\ IsHist
    /\ target_column \notin DOMAIN last.result
    /\ "age" \notin DOMAIN last.result
    /\ "education-num" \in DOMAIN last.result

\* C9 as stated: value_counts fails on a column of numerical role.
C9_ValueCountsFailsOnNumerical ==
    (IsValueCounts /\ Role(last.call.a) = "numerical") => DataError

\* C9, amended: value_counts succeeds on every column, whatever its role:
\* numerical, categorical or target.
C9_ValueCountsSucceeds ==
    IsValueCounts =>
        /\ ~DataError
        /\ pc # "failed"
        /\ Len(last.result) =
             Cardinality(Range(Column(adult_census, last.call.a)) \ {NaN})

C9_Witness ==
    /\ IsValueCounts
    /\ Role(last.call.a) = "numerical"
    /\ Len(last.result) >= 2

\* C10: every row of the Table has the Table's columns, and once the
\* columns are selected no cell run changes the Table.
C10_TableImmutable ==
    /\ [](\A i \in DOMAIN adult_census.rows :
             DOMAIN adult_census.rows[i] = Range(adult_census.columns))
    /\ [][pc = "projected" => adult_census' = adult_census]_vars

C10_Witness ==
    /\ pc = "projected"
    /\ last.call.op = "pairplot"
    /\ Len(last.result.rows) = n_samples_to_plot
    /\ Len(adult_census.rows) > n_samples_to_plot

=============================================================================
